---------------------------- MODULE Spec2Model ----------------------------
(***************************************************************************)
(* A model of wecom-proxy's WeCom KF URL-verification path: the signature  *)
(* verifier (verifyWecomSignature), the challenge decryptor                *)
(* (decryptWecomEchoStr) and the GET /wecom/kf-callback handler that calls *)
(* them.                                                                   *)
(*                                                                         *)
(* Strings are sequences of character codes (UTF-16 code units), buffers   *)
(* are sequences of bytes.  SHA-1, base64, AES-256-CBC and PKCS#7 are      *)
(* computed bit for bit as the Node.js crypto and Buffer calls of the      *)
(* source compute them.  Maps over a sequence are written                  *)
(* SubSeq([i \in 1..n |-> e], 1, n), which yields the sequence itself;     *)
(* long loops do half of their steps and then the rest, which keeps the    *)
(* recursion shallow; and a value that is used several times is the        *)
(* parameter of a local operator, so that it is computed once.             *)
(***************************************************************************)
EXTENDS Integers, Sequences, FiniteSets, TLC

Min(S) == CHOOSE x \in S : \A y \in S : x <= y

Max(S) == CHOOSE x \in S : \A y \in S : x >= y

(***************************************************************************)
(* Bit operations on bytes and 32-bit words.                               *)
(***************************************************************************)
RECURSIVE XorBits(_, _, _)
XorBits(a, b, n) ==
  IF n = 0 THEN 0
  ELSE ((a + b) % 2) + 2 * XorBits(a \div 2, b \div 2, n - 1)

RECURSIVE AndBits(_, _, _)
AndBits(a, b, n) ==
  IF n = 0 THEN 0
  ELSE ((a % 2) * (b % 2)) + 2 * AndBits(a \div 2, b \div 2, n - 1)

\* Tables evaluated once: entry 256 * a + b + 1 is for the bytes a and b.
\* Wider operands are combined byte by byte.
XorBytesTable == SubSeq([n \in 1..65536 |-> XorBits((n - 1) \div 256, (n - 1) % 256, 8)], 1, 65536)

AndBytesTable == SubSeq([n \in 1..65536 |-> AndBits((n - 1) \div 256, (n - 1) % 256, 8)], 1, 65536)

Xor8(a, b) == XorBytesTable[256 * a + b + 1]

Xor16(a, b) ==
  256 * XorBytesTable[256 * (a \div 256) + (b \div 256) + 1]
    + XorBytesTable[256 * (a % 256) + (b % 256) + 1]

And16(a, b) ==
  256 * AndBytesTable[256 * (a \div 256) + (b \div 256) + 1]
    + AndBytesTable[256 * (a % 256) + (b % 256) + 1]

Half == 2 ^ 16

(***************************************************************************)
(* A 32-bit word is the pair <<hi, lo>> of its 16-bit halves: the integers  *)
(* at hand are signed 32-bit ones.                                         *)
(***************************************************************************)
\* Addition modulo 2^32, of two words and of five.
Add32(a, b) ==
  <<(a[1] + b[1] + ((a[2] + b[2]) \div Half)) % Half, (a[2] + b[2]) % Half>>

Add32x5(a, b, c, d, e) ==
  <<(a[1] + b[1] + c[1] + d[1] + e[1]
       + ((a[2] + b[2] + c[2] + d[2] + e[2]) \div Half)) % Half,
    (a[2] + b[2] + c[2] + d[2] + e[2]) % Half>>

\* Rotation to the left by n bits, 0 <= n < 32.
Rotl32(x, n) ==
  IF n < 16
  THEN <<((x[1] * (2 ^ n)) % Half) + (x[2] \div (2 ^ (16 - n))),
         ((x[2] * (2 ^ n)) % Half) + (x[1] \div (2 ^ (16 - n)))>>
  ELSE <<((x[2] * (2 ^ (n - 16))) % Half) + (x[1] \div (2 ^ (32 - n))),
         ((x[1] * (2 ^ (n - 16))) % Half) + (x[2] \div (2 ^ (32 - n)))>>

(***************************************************************************)
(* SHA-1 (FIPS 180-4), as crypto.createHash("sha1") computes it.           *)
(***************************************************************************)
\* The n-byte big-endian rendering of x.
BigEndian(x, n) == SubSeq([i \in 1..n |-> (x \div (256 ^ (n - i))) % 256], 1, n)

\* The message followed by 0x80, zero fill to 56 mod 64, and the bit length
\* in 8 bytes (the length is below 2^24 bits here).
Sha1Pad(bytes) ==
  LET len  == Len(bytes)
      fill == (119 - (len % 64)) % 64
  IN  bytes \o <<128>> \o SubSeq([i \in 1..(fill + 5) |-> 0], 1, fill + 5)
        \o BigEndian(8 * len, 3)

WordAt(bytes, i) ==
  <<bytes[i] * 256 + bytes[i + 1], bytes[i + 2] * 256 + bytes[i + 3]>>

\* ROTL1(a ^ b ^ c ^ d)
Sha1Mix(a, b, c, d) ==
  Rotl32(<<Xor16(Xor16(a[1], b[1]), Xor16(c[1], d[1])),
           Xor16(Xor16(a[2], b[2]), Xor16(c[2], d[2]))>>, 1)

\* The message schedule p with its next three words,
\* W[t] = ROTL1(W[t-3] ^ W[t-8] ^ W[t-14] ^ W[t-16]): none of the three needs
\* another of them.  n is the length of p.
Sha1Next3(p, n) ==
  p \o <<Sha1Mix(p[n - 2], p[n - 7], p[n - 13], p[n - 15]),
         Sha1Mix(p[n - 1], p[n - 6], p[n - 12], p[n - 14]),
         Sha1Mix(p[n], p[n - 5], p[n - 11], p[n - 13])>>

\* The schedule p extended by three words k times: the first half of the
\* times, then the rest.
RECURSIVE Sha1Extend(_, _)
Sha1Extend(p, k) ==
  IF Len(p) >= 0 /\ k = 1 THEN Sha1Next3(p, Len(p))
  ELSE Sha1Extend(Sha1Extend(p, k \div 2), k - (k \div 2))

\* The 80-word message schedule of the block that starts after byte `off`.
Sha1Schedule(bytes, off) ==
  SubSeq(Sha1Extend(SubSeq([t \in 1..16 |-> WordAt(bytes, off + 4 * t - 3)], 1, 16), 22),
         1, 80)

\* Ch, Parity, Maj, Parity.  The two summands of Ch, (b & c) and (~b & d),
\* share no bit, nor do those of Maj written (b & c) | (d & (b ^ c)): each
\* "or" is the sum of the halves.
Sha1F(t, b, c, d) ==
  IF t < 20
    THEN <<And16(b[1], c[1]) + And16(Half - 1 - b[1], d[1]),
           And16(b[2], c[2]) + And16(Half - 1 - b[2], d[2])>>
  ELSE IF t >= 40 /\ t < 60
    THEN <<And16(b[1], c[1]) + And16(d[1], Xor16(b[1], c[1])),
           And16(b[2], c[2]) + And16(d[2], Xor16(b[2], c[2]))>>
  ELSE <<Xor16(Xor16(b[1], c[1]), d[1]), Xor16(Xor16(b[2], c[2]), d[2])>>

Sha1K(t) ==
  IF t < 20 THEN <<23170, 31129>>        \* 5a82 7999
  ELSE IF t < 40 THEN <<28377, 60321>>   \* 6ed9 eba1
  ELSE IF t < 60 THEN <<36635, 48348>>   \* 8f1b bcdc
  ELSE <<51810, 49622>>                  \* ca62 c1d6

\* Round t on the working variables s = <<a, b, c, d, e>>.
Sha1Round(s, w, t) ==
  <<Add32x5(Rotl32(s[1], 5), Sha1F(t, s[2], s[3], s[4]), s[5], Sha1K(t), w[t + 1]),
    s[1], Rotl32(s[2], 30), s[3], s[4]>>

\* The next n rounds from st = <<working variables, round>>: the first half of
\* them, then the rest.
RECURSIVE Sha1Rounds(_, _, _)
Sha1Rounds(st, n, w) ==
  IF st[2] >= 0 /\ n = 1 THEN <<Sha1Round(st[1], w, st[2]), st[2] + 1>>
  ELSE Sha1Rounds(Sha1Rounds(st, n \div 2, w), n - (n \div 2), w)

\* The blocks from st[2] on; st = <<hash value, offset>>.
RECURSIVE Sha1Blocks(_, _)
Sha1Blocks(st, bytes) ==
  IF st[2] >= Len(bytes) THEN st[1]
  ELSE LET Sum(h, s) ==
             <<Add32(h[1], s[1]), Add32(h[2], s[2]), Add32(h[3], s[3]),
               Add32(h[4], s[4]), Add32(h[5], s[5])>>
       IN  Sha1Blocks(
             <<Sum(st[1], Sha1Rounds(<<st[1], 0>>, 80, Sha1Schedule(bytes, st[2]))[1]),
               st[2] + 64>>, bytes)

\* 67452301 efcdab89 98badcfe 10325476 c3d2e1f0
Sha1Init ==
  <<<<26437, 8961>>, <<61389, 43913>>, <<39098, 56574>>, <<4146, 21622>>,
    <<50130, 57840>>>>

\* The five words of a hash value as 20 bytes.
Sha1Digest(h) ==
  SubSeq([i \in 1..(4 * Len(h)) |->
            IF i % 4 = 1 THEN h[(i + 3) \div 4][1] \div 256
            ELSE IF i % 4 = 2 THEN h[(i + 3) \div 4][1] % 256
            ELSE IF i % 4 = 3 THEN h[(i + 3) \div 4][2] \div 256
            ELSE h[(i + 3) \div 4][2] % 256], 1, 4 * Len(h))

\* The 20-byte digest of a byte sequence.
Sha1(bytes) == Sha1Digest(Sha1Blocks(<<Sha1Init, 0>>, Sha1Pad(bytes)))

(***************************************************************************)
(* Strings and buffers.                                                    *)
(***************************************************************************)
\* A missing query parameter or an unset environment variable (undefined).
Undefined == <<-1>>

\* JavaScript's !x for a value that is undefined or a string.
Falsy(x) == x = Undefined \/ x = << >>

\* s[from .. to) with 0-based offsets, clamped to the buffer as
\* Buffer.prototype.subarray clamps them.
Subarray(buf, from, to) ==
  LET f == IF from > Len(buf) THEN Len(buf) ELSE from
      t == IF to > Len(buf) THEN Len(buf) ELSE to
  IN  IF t <= f THEN << >> ELSE SubSeq(buf, f + 1, t)

IsHighSurrogate(c) == c >= 55296 /\ c < 56320

IsLowSurrogate(c) == c >= 56320 /\ c < 57344

\* The UTF-8 bytes code unit i of str contributes: one to three bytes outside
\* the surrogate range, four bytes for the first unit of a surrogate pair and
\* none for its second, and U+FFFD for a lone surrogate.
Utf8Unit(str, i) ==
  LET c == str[i]
  IN  IF c < 128 THEN <<c>>
      ELSE IF c < 2048 THEN <<192 + (c \div 64), 128 + (c % 64)>>
      ELSE IF IsHighSurrogate(c) /\ i < Len(str) /\ IsLowSurrogate(str[i + 1])
        THEN LET cp == 65536 + (c - 55296) * 1024 + (str[i + 1] - 56320)
             IN  <<240 + (cp \div 262144), 128 + ((cp \div 4096) % 64),
                   128 + ((cp \div 64) % 64), 128 + (cp % 64)>>
      ELSE IF IsLowSurrogate(c) /\ i > 1 /\ IsHighSurrogate(str[i - 1])
        THEN << >>
      ELSE IF IsHighSurrogate(c) \/ IsLowSurrogate(c) THEN <<239, 191, 189>>
      ELSE <<224 + (c \div 4096), 128 + ((c \div 64) % 64), 128 + (c % 64)>>

RECURSIVE Utf8EncodeRange(_, _, _)
Utf8EncodeRange(str, lo, hi) ==
  IF lo > hi THEN << >>
  ELSE IF lo = hi THEN Utf8Unit(str, lo)
  ELSE Utf8EncodeRange(str, lo, (lo + hi) \div 2)
         \o Utf8EncodeRange(str, (lo + hi) \div 2 + 1, hi)

\* The UTF-8 encoding of a string (what hash.update(str) hashes).
Utf8Encode(str) ==
  IF \A i \in 1..Len(str) : str[i] < 128 THEN str
  ELSE Utf8EncodeRange(str, 1, Len(str))

InRange(buf, j, lo, hi) == j <= Len(buf) /\ buf[j] >= lo /\ buf[j] <= hi

\* The code units of a code point (a surrogate pair above U+FFFF).
CodeUnits(cp) ==
  IF cp < 65536 THEN <<cp>>
  ELSE <<55296 + ((cp - 65536) \div 1024), 56320 + ((cp - 65536) % 1024)>>

\* One step of buf.toString("utf8") at byte i: <<code units, next byte>>.  A
\* well-formed sequence gives its code point, a maximal ill-formed part U+FFFD.
Utf8Step(buf, i) ==
  LET b   == buf[i]
      lo2 == IF b = 224 THEN 160 ELSE IF b = 240 THEN 144 ELSE 128
      hi2 == IF b = 237 THEN 159 ELSE IF b = 244 THEN 143 ELSE 191
      c2  == InRange(buf, i + 1, lo2, hi2)
      c3  == InRange(buf, i + 2, 128, 191)
      c4  == InRange(buf, i + 3, 128, 191)
  IN  IF b < 128 THEN <<<<b>>, i + 1>>
      ELSE IF b >= 194 /\ b <= 223
        THEN IF c2 THEN <<<<(b - 192) * 64 + (buf[i + 1] - 128)>>, i + 2>>
             ELSE <<<<65533>>, i + 1>>
      ELSE IF b >= 224 /\ b <= 239
        THEN IF ~c2 THEN <<<<65533>>, i + 1>>
             ELSE IF ~c3 THEN <<<<65533>>, i + 2>>
             ELSE <<<<(b - 224) * 4096 + (buf[i + 1] - 128) * 64
                        + (buf[i + 2] - 128)>>, i + 3>>
      ELSE IF b >= 240 /\ b <= 244
        THEN IF ~c2 THEN <<<<65533>>, i + 1>>
             ELSE IF ~c3 THEN <<<<65533>>, i + 2>>
             ELSE IF ~c4 THEN <<<<65533>>, i + 3>>
             ELSE <<CodeUnits((b - 240) * 262144 + (buf[i + 1] - 128) * 4096
                                + (buf[i + 2] - 128) * 64 + (buf[i + 3] - 128)),
                    i + 4>>
      ELSE <<<<65533>>, i + 1>>

\* The decoding from st[2] on; st = <<code units so far, next byte>>.
RECURSIVE Utf8DecodeFrom(_, _)
Utf8DecodeFrom(st, buf) ==
  IF st[2] > Len(buf) THEN st[1]
  ELSE LET After(step) == Utf8DecodeFrom(<<st[1] \o step[1], step[2]>>, buf)
       IN  After(Utf8Step(buf, st[2]))

\* buf.toString("utf8").
Utf8Decode(buf) ==
  IF \A i \in 1..Len(buf) : buf[i] < 128 THEN buf
  ELSE Utf8DecodeFrom(<<<< >>, 1>>, buf)

\* The white space and line terminators String.prototype.trim removes.
IsWhiteSpace(c) ==
  \/ c \in {9, 10, 11, 12, 13, 32, 160, 5760, 8232, 8233, 8239, 8287, 12288, 65279}
  \/ (c >= 8192 /\ c <= 8202)

\* String.prototype.trim: from the first to the last character that is not
\* white space.
Trim(str) ==
  LET Between(keep) ==
        IF keep = {} THEN << >> ELSE SubSeq(str, Min(keep), Max(keep))
  IN  Between({i \in 1..Len(str) : ~IsWhiteSpace(str[i])})

HexDigit(n) == IF n < 10 THEN 48 + n ELSE 87 + n

\* digest("hex"): two lowercase hexadecimal digits per byte.
Hex(bytes) ==
  SubSeq([i \in 1..(2 * Len(bytes)) |->
            IF i % 2 = 1 THEN HexDigit(bytes[(i + 1) \div 2] \div 16)
            ELSE HexDigit(bytes[i \div 2] % 16)], 1, 2 * Len(bytes))

(***************************************************************************)
(* Base64 as Buffer.from(str, "base64") decodes it: characters outside the *)
(* alphabet are skipped, '-' and '_' stand for '+' and '/', decoding stops *)
(* at the first '=', and a trailing group of two or three characters gives *)
(* one or two bytes.                                                       *)
(***************************************************************************)
Unbase64(c) ==
  IF c >= 65 /\ c <= 90 THEN c - 65
  ELSE IF c >= 97 /\ c <= 122 THEN c - 71
  ELSE IF c >= 48 /\ c <= 57 THEN c + 4
  ELSE IF c = 43 \/ c = 45 THEN 62
  ELSE IF c = 47 \/ c = 95 THEN 63
  ELSE -1

IsBase64Char(c) == Unbase64(c) >= 0

\* The 6-bit values of the alphabet's characters of str before the first '='.
Sextets(str) ==
  LET Upto(pads) == IF pads = {} THEN Len(str) ELSE Min(pads) - 1
      Values(chars) ==
        SubSeq([i \in 1..Len(chars) |-> Unbase64(chars[i])], 1, Len(chars))
  IN  Values(SelectSeq(SubSeq(str, 1, Upto({i \in 1..Len(str) : str[i] = 61})),
                       IsBase64Char))

\* Byte j (from 1) of the 6-bit values v, four of which hold three bytes.
SextetByte(v, j) ==
  LET q == 4 * ((j - 1) \div 3)
  IN  IF j % 3 = 1 THEN v[q + 1] * 4 + (v[q + 2] \div 16)
      ELSE IF j % 3 = 2 THEN (v[q + 2] % 16) * 16 + (v[q + 3] \div 4)
      ELSE (v[q + 3] % 4) * 64 + v[q + 4]

BufferFromBase64(str) ==
  LET Bytes(v, n) == SubSeq([j \in 1..n |-> SextetByte(v, j)], 1, n)
      Decoded(v) == Bytes(v, (Len(v) * 6) \div 8)
  IN  Decoded(Sextets(str))

(***************************************************************************)
(* AES-256 (FIPS 197) in CBC mode with PKCS#7 padding, as                  *)
(* crypto.createDecipheriv("aes-256-cbc", key, iv) deciphers.  A block and *)
(* a round key are 16 bytes, column by column.                             *)
(***************************************************************************)
\* The S-box, SBox[x + 1] for the byte x.
SBox ==
  <<
     99, 124, 119, 123, 242, 107, 111, 197,  48,   1, 103,  43, 254, 215, 171, 118,
    202, 130, 201, 125, 250,  89,  71, 240, 173, 212, 162, 175, 156, 164, 114, 192,
    183, 253, 147,  38,  54,  63, 247, 204,  52, 165, 229, 241, 113, 216,  49,  21,
      4, 199,  35, 195,  24, 150,   5, 154,   7,  18, 128, 226, 235,  39, 178, 117,
      9, 131,  44,  26,  27, 110,  90, 160,  82,  59, 214, 179,  41, 227,  47, 132,
     83, 209,   0, 237,  32, 252, 177,  91, 106, 203, 190,  57,  74,  76,  88, 207,
    208, 239, 170, 251,  67,  77,  51, 133,  69, 249,   2, 127,  80,  60, 159, 168,
     81, 163,  64, 143, 146, 157,  56, 245, 188, 182, 218,  33,  16, 255, 243, 210,
    205,  12,  19, 236,  95, 151,  68,  23, 196, 167, 126,  61, 100,  93,  25, 115,
     96, 129,  79, 220,  34,  42, 144, 136,  70, 238, 184,  20, 222,  94,  11, 219,
    224,  50,  58,  10,  73,   6,  36,  92, 194, 211, 172,  98, 145, 149, 228, 121,
    231, 200,  55, 109, 141, 213,  78, 169, 108,  86, 244, 234, 101, 122, 174,   8,
    186, 120,  37,  46,  28, 166, 180, 198, 232, 221, 116,  31,  75, 189, 139, 138,
    112,  62, 181, 102,  72,   3, 246,  14,  97,  53,  87, 185, 134, 193,  29, 158,
    225, 248, 152,  17, 105, 217, 142, 148, 155,  30, 135, 233, 206,  85,  40, 223,
    140, 161, 137,  13, 191, 230,  66, 104,  65, 153,  45,  15, 176,  84, 187,  22
  >>

\* The inverse S-box, InvSBox[y + 1] for the byte y.
InvSBox ==
  <<
     82,   9, 106, 213,  48,  54, 165,  56, 191,  64, 163, 158, 129, 243, 215, 251,
    124, 227,  57, 130, 155,  47, 255, 135,  52, 142,  67,  68, 196, 222, 233, 203,
     84, 123, 148,  50, 166, 194,  35,  61, 238,  76, 149,  11,  66, 250, 195,  78,
      8,  46, 161, 102,  40, 217,  36, 178, 118,  91, 162,  73, 109, 139, 209,  37,
    114, 248, 246, 100, 134, 104, 152,  22, 212, 164,  92, 204,  93, 101, 182, 146,
    108, 112,  72,  80, 253, 237, 185, 218,  94,  21,  70,  87, 167, 141, 157, 132,
    144, 216, 171,   0, 140, 188, 211,  10, 247, 228,  88,   5, 184, 179,  69,   6,
    208,  44,  30, 143, 202,  63,  15,   2, 193, 175, 189,   3,   1,  19, 138, 107,
     58, 145,  17,  65,  79, 103, 220, 234, 151, 242, 207, 206, 240, 180, 230, 115,
    150, 172, 116,  34, 231, 173,  53, 133, 226, 249,  55, 232,  28, 117, 223, 110,
     71, 241,  26, 113,  29,  41, 197, 137, 111, 183,  98,  14, 170,  24, 190,  27,
    252,  86,  62,  75, 198, 210, 121,  32, 154, 219, 192, 254, 120, 205,  90, 244,
     31, 221, 168,  51, 136,   7, 199,  49, 177,  18,  16,  89,  39, 128, 236,  95,
     96,  81, 127, 169,  25, 181,  74,  13,  45, 229, 122, 159, 147, 201, 156, 239,
    160, 224,  59,  77, 174,  42, 245, 176, 200, 235, 187,  60, 131,  83, 153,  97,
     23,  43,   4, 126, 186, 119, 214,  38, 225, 105,  20,  99,  85,  33,  12, 125
  >>

\* Multiplication by x in GF(2^8) modulo x^8 + x^4 + x^3 + x + 1.
XTime(a) == IF a < 128 THEN 2 * a ELSE Xor8((2 * a) % 256, 27)

RECURSIVE GMul(_, _)
GMul(a, b) ==
  IF b = 0 THEN 0
  ELSE Xor8(IF b % 2 = 1 THEN a ELSE 0, GMul(XTime(a), b \div 2))

\* The products the column mixes use, evaluated once: Mul.by2[x + 1] = 2 * x.
Mul ==
  [by2  |-> SubSeq([x \in 1..256 |-> GMul(x - 1, 2)], 1, 256),
   by3  |-> SubSeq([x \in 1..256 |-> GMul(x - 1, 3)], 1, 256),
   by9  |-> SubSeq([x \in 1..256 |-> GMul(x - 1, 9)], 1, 256),
   by11 |-> SubSeq([x \in 1..256 |-> GMul(x - 1, 11)], 1, 256),
   by13 |-> SubSeq([x \in 1..256 |-> GMul(x - 1, 13)], 1, 256),
   by14 |-> SubSeq([x \in 1..256 |-> GMul(x - 1, 14)], 1, 256)]

Xor8x4(a, b, c, d) == Xor8(Xor8(a, b), Xor8(c, d))

XorBytes(a, b) == SubSeq([i \in 1..Len(a) |-> Xor8(a[i], b[i])], 1, Len(a))

SubWord(x) == <<SBox[x[1] + 1], SBox[x[2] + 1], SBox[x[3] + 1], SBox[x[4] + 1]>>

RotWord(x) == <<x[2], x[3], x[4], x[1]>>

\* The round constants of the key schedule.
Rcon == <<1, 2, 4, 8, 16, 32, 64>>

\* temp of the key schedule for the word after the first j words of w: the
\* word before it, or SubWord(RotWord(it)) ^ Rcon when j is a multiple of 8,
\* or SubWord(it) when j is 4 above one.
KeyTemp(w, j) ==
  IF j % 8 = 0
  THEN XorBytes(SubWord(RotWord(SubSeq(w, 4 * j - 3, 4 * j))),
                <<Rcon[j \div 8], 0, 0, 0>>)
  ELSE IF j % 8 = 4 THEN SubWord(SubSeq(w, 4 * j - 3, 4 * j))
  ELSE SubSeq(w, 4 * j - 3, 4 * j)

\* The key schedule w with its next n words, w[j] = w[j-8] ^ temp: the first
\* half of them, then the rest.
RECURSIVE KeyExpand(_, _)
KeyExpand(w, n) ==
  IF Len(w) >= 0 /\ n = 1
  THEN w \o XorBytes(SubSeq(w, Len(w) - 31, Len(w) - 28), KeyTemp(w, Len(w) \div 4))
  ELSE KeyExpand(KeyExpand(w, n \div 2), n - (n \div 2))

\* The expanded key: the 60 words (240 bytes) grown from the 32 key bytes.
KeyExpansion(key) == KeyExpand(key, 52)

RoundKey(w, r) == SubSeq(w, 16 * r + 1, 16 * r + 16)

SubBytes(s) == SubSeq([i \in 1..16 |-> SBox[s[i] + 1]], 1, 16)

InvSubBytes(s) == SubSeq([i \in 1..16 |-> InvSBox[s[i] + 1]], 1, 16)

\* Row r of the state (bytes r + 1, r + 5, r + 9, r + 13) moves r columns to
\* the left (ShiftRows) or to the right (InvShiftRows).
ShiftRows(s) ==
  <<s[1], s[6], s[11], s[16], s[5], s[10], s[15], s[4],
    s[9], s[14], s[3], s[8], s[13], s[2], s[7], s[12]>>

InvShiftRows(s) ==
  <<s[1], s[14], s[11], s[8], s[5], s[2], s[15], s[12],
    s[9], s[6], s[3], s[16], s[13], s[10], s[7], s[4]>>

MixColumn(a, b, c, d) ==
  <<Xor8x4(Mul.by2[a + 1], Mul.by3[b + 1], c, d),
    Xor8x4(a, Mul.by2[b + 1], Mul.by3[c + 1], d),
    Xor8x4(a, b, Mul.by2[c + 1], Mul.by3[d + 1]),
    Xor8x4(Mul.by3[a + 1], b, c, Mul.by2[d + 1])>>

MixColumns(s) ==
  MixColumn(s[1], s[2], s[3], s[4]) \o MixColumn(s[5], s[6], s[7], s[8])
    \o MixColumn(s[9], s[10], s[11], s[12]) \o MixColumn(s[13], s[14], s[15], s[16])

InvMixColumn(a, b, c, d) ==
  <<Xor8x4(Mul.by14[a + 1], Mul.by11[b + 1], Mul.by13[c + 1], Mul.by9[d + 1]),
    Xor8x4(Mul.by9[a + 1], Mul.by14[b + 1], Mul.by11[c + 1], Mul.by13[d + 1]),
    Xor8x4(Mul.by13[a + 1], Mul.by9[b + 1], Mul.by14[c + 1], Mul.by11[d + 1]),
    Xor8x4(Mul.by11[a + 1], Mul.by13[b + 1], Mul.by9[c + 1], Mul.by14[d + 1])>>

InvMixColumns(s) ==
  InvMixColumn(s[1], s[2], s[3], s[4]) \o InvMixColumn(s[5], s[6], s[7], s[8])
    \o InvMixColumn(s[9], s[10], s[11], s[12])
    \o InvMixColumn(s[13], s[14], s[15], s[16])

\* The next n rounds of the cipher from st = <<state, round>>: the first half
\* of them, then the rest.
RECURSIVE CipherRounds(_, _, _)
CipherRounds(st, n, w) ==
  IF st[2] >= 0 /\ n = 1
  THEN <<XorBytes(MixColumns(ShiftRows(SubBytes(st[1]))), RoundKey(w, st[2])),
         st[2] + 1>>
  ELSE CipherRounds(CipherRounds(st, n \div 2, w), n - (n \div 2), w)

\* The key added, 13 rounds, and the last round, which mixes no columns.
Cipher(block, w) ==
  LET s == CipherRounds(<<XorBytes(block, RoundKey(w, 0)), 1>>, 13, w)[1]
  IN  XorBytes(ShiftRows(SubBytes(s)), RoundKey(w, 14))

\* The next n rounds of the inverse cipher from st = <<state, round>>, the
\* rounds counted down.
RECURSIVE InvCipherRounds(_, _, _)
InvCipherRounds(st, n, w) ==
  IF st[2] >= 0 /\ n = 1
  THEN <<InvMixColumns(XorBytes(InvSubBytes(InvShiftRows(st[1])),
                                RoundKey(w, st[2]))),
         st[2] - 1>>
  ELSE InvCipherRounds(InvCipherRounds(st, n \div 2, w), n - (n \div 2), w)

\* The last round key added, 13 rounds, and the round without the column mix.
InvCipher(block, w) ==
  LET s == InvCipherRounds(<<XorBytes(block, RoundKey(w, 14)), 13>>, 13, w)[1]
  IN  XorBytes(InvSubBytes(InvShiftRows(s)), RoundKey(w, 0))

\* CBC: block k of the plaintext is the deciphered block k of the ciphertext
\* combined with the ciphertext block before it (the IV for the first).
CbcDecryptBlock(cipher, w, iv, k) ==
  XorBytes(InvCipher(SubSeq(cipher, 16 * k - 15, 16 * k), w),
           IF k = 1 THEN iv ELSE SubSeq(cipher, 16 * k - 31, 16 * k - 16))

RECURSIVE CbcDecryptBlocks(_, _, _, _)
CbcDecryptBlocks(cipher, w, iv, k) ==
  IF 16 * k > Len(cipher) THEN << >>
  ELSE CbcDecryptBlock(cipher, w, iv, k) \o CbcDecryptBlocks(cipher, w, iv, k + 1)

\* crypto.createDecipheriv throws for a key that is not 32 bytes ("Invalid key
\* length").  decipher.update(cipherBuf) and decipher.final(): final throws when the
\* ciphertext is empty or not a whole number of blocks ("wrong final block
\* length") and when the last block does not end in PKCS#7 padding ("bad
\* decrypt"); otherwise the padding is removed.
DecipherAes256Cbc(cipherBuf, aesKey, iv) ==
  IF Len(aesKey) # 32
  THEN [ok |-> FALSE, err |-> "Invalid key length", buf |-> << >>]
  ELSE IF Len(cipherBuf) = 0 \/ Len(cipherBuf) % 16 # 0
  THEN [ok |-> FALSE, err |-> "wrong final block length", buf |-> << >>]
  ELSE LET Final(padded, n) ==
             IF n = 0 \/ n > 16
                \/ \E i \in (Len(padded) - n + 1)..Len(padded) : padded[i] # n
             THEN [ok |-> FALSE, err |-> "bad decrypt", buf |-> << >>]
             ELSE [ok |-> TRUE, err |-> "",
                   buf |-> SubSeq(padded, 1, Len(padded) - n)]
           Unpadded(padded) == Final(padded, padded[Len(padded)])
       IN  Unpadded(CbcDecryptBlocks(cipherBuf, KeyExpansion(aesKey), iv, 1))

(***************************************************************************)
(* sha1Hex and verifyWecomSignature.                                       *)
(***************************************************************************)
sha1Hex(str) == Hex(Sha1(Utf8Encode(str)))

\* a < b for two sequences of numbers: at the first place where they differ,
\* or a a proper prefix of b.  On strings this is JavaScript's a < b, which
\* compares code units.
SeqLess(a, b) ==
  LET At(diff) ==
        IF diff = {} THEN Len(a) < Len(b) ELSE a[Min(diff)] < b[Min(diff)]
  IN  At({i \in 1..Min({Len(a), Len(b)}) : a[i] # b[i]})

\* The array left as it is.
ArrayUnsorted(arr) == arr

\* Array.prototype.sort() with no comparator: ascending by code units, equal
\* elements in their former order.  Element i goes to the place after the
\* elements below it and the equal elements before it.
ArraySort(arr) ==
  LET rank(i) == Cardinality({j \in 1..Len(arr) :
                               SeqLess(arr[j], arr[i])
                                 \/ (arr[j] = arr[i] /\ j < i)}) + 1
  IN  SubSeq([k \in 1..Len(arr) |-> arr[CHOOSE i \in 1..Len(arr) : rank(i) = k]],
             1, Len(arr))

\* Array.prototype.join("") of four elements.
Join(arr) == arr[1] \o arr[2] \o arr[3] \o arr[4]

verifyWecomSignature(token, timestamp, nonce, signature, data) ==
  LET arr      == ArraySort(<<token, timestamp, nonce, data>>)
      computed == sha1Hex(Join(arr))
  IN  computed = signature

(***************************************************************************)
(* decryptWecomEchoStr.  A call returns [ok, err, msg, steps]: ok with the *)
(* message, or the error it threw; steps are the buffer and cipher calls   *)
(* it made, in order.                                                      *)
(***************************************************************************)
Throw(e, done) == [ok |-> FALSE, err |-> e, msg |-> << >>, steps |-> done]

Return(m, done) == [ok |-> TRUE, err |-> "", msg |-> m, steps |-> done]

\* The 16 bits at bytes 18 and 19 alone.
ReadUInt16BETail(plain, offset) ==
  <<0, plain[offset + 3] * 256 + plain[offset + 4]>>

\* plain.readUInt32BE(offset) as the pair <<high 16 bits, low 16 bits>>.
ReadUInt32BE(plain, offset) ==
  <<plain[offset + 1] * 256 + plain[offset + 2],
    plain[offset + 3] * 256 + plain[offset + 4]>>

\* msgStart + msgLen as a pair <<multiple of 2^16, rest>>; the sum is exact in
\* JavaScript's numbers.
MsgEnd(msgStart, msgLen) ==
  <<msgLen[1] + ((msgLen[2] + msgStart) \div Half), (msgLen[2] + msgStart) % Half>>

\* msgEnd > plain.length, for a buffer below 2^16 bytes.
Exceeds(msgEnd, length) == msgEnd[1] > 0 \/ msgEnd[2] > length

\* A key of any length let through.
AesKeyLengthUnchecked(aesKey) == FALSE

\* aesKey.length !== 32
AesKeyLengthBad(aesKey) == Len(aesKey) # 32

\* A mismatch whenever an expected identifier is given and differs.
CorpMismatchStrict(corpId, corpFromMsg) ==
  ~Falsy(corpId) /\ corpFromMsg # corpId

\* corpId && corpFromMsg && corpFromMsg !== corpId
CorpMismatch(corpId, corpFromMsg) ==
  ~Falsy(corpId) /\ ~Falsy(corpFromMsg) /\ corpFromMsg # corpId

\* One character per byte.
Latin1Decode(buf) == buf

\* buf.toString("utf8")
BufferToString(buf) == Utf8Decode(buf)

\* Each local operator is the rest of the function from the point where its
\* parameters have their values.
decryptWecomEchoStr(encodingAESKey, corpId, echostrB64) ==
  LET s1 == <<"Buffer.from(key)">>
      s3 == <<"Buffer.from(key)", "Buffer.from(echostr)", "decipher">>
      FromStrings(msg, corpFromMsg) ==
        IF CorpMismatch(corpId, corpFromMsg) THEN Throw("CorpID mismatch", s3)
        ELSE Return(msg, s3)
      FromMsgEnd(plain, msgStart, msgEnd) ==
        IF Exceeds(msgEnd, Len(plain)) THEN Throw("Bad msgLen", s3)
        ELSE FromStrings(BufferToString(Subarray(plain, msgStart, msgEnd[2])),
                         BufferToString(Subarray(plain, msgEnd[2], Len(plain))))
      FromPlain(plain) ==
        IF Len(plain) < 20 THEN Throw("readUInt32BE out of range", s3)
        ELSE FromMsgEnd(plain, 20, MsgEnd(20, ReadUInt32BE(plain, 16)))
      FromFinal(dec) ==
        IF ~dec.ok THEN Throw(dec.err, s3) ELSE FromPlain(dec.buf)
      FromAesKey(aesKey) ==
        IF AesKeyLengthBad(aesKey) THEN Throw("AES key length", s1)
        ELSE FromFinal(DecipherAes256Cbc(BufferFromBase64(echostrB64), aesKey,
                                         Subarray(aesKey, 0, 16)))
      FromKeyStr(keyStr) ==
        IF Len(keyStr) # 43 THEN Throw("EncodingAESKey length", << >>)
        ELSE FromAesKey(BufferFromBase64(keyStr \o <<61>>))
  IN  FromKeyStr(Trim(IF Falsy(encodingAESKey) THEN << >> ELSE encodingAESKey))

(***************************************************************************)
(* The handler of GET /wecom/kf-callback.  A run of it gives the reply it  *)
(* sent, [code, type, body], and the calls it made of verifyWecomSignature *)
(* and decryptWecomEchoStr, in order.                                      *)
(***************************************************************************)
TextPlain == "text/plain"

MissingParamsBody == <<109, 105, 115, 115, 105, 110, 103, 32, 112, 97, 114, 97, 109, 115>>   \* "missing params"

MisconfiguredBody == <<115, 101, 114, 118, 101, 114, 32, 109, 105, 115, 99, 111, 110, 102, 105, 103, 117, 114, 101, 100>>   \* "server misconfigured"

VerificationFailedBody == <<86, 101, 114, 105, 102, 105, 99, 97, 116, 105, 111, 110, 32, 102, 97, 105, 108, 101, 100>>   \* "Verification failed"

\* A parameter counted as missing only when it is absent.
AbsentParams(q) ==
  q.msg_signature = Undefined \/ q.timestamp = Undefined
    \/ q.nonce = Undefined \/ q.echostr = Undefined

\* !msg_signature || !timestamp || !nonce || !echostr
MissingParams(q) ==
  Falsy(q.msg_signature) \/ Falsy(q.timestamp) \/ Falsy(q.nonce) \/ Falsy(q.echostr)

\* !WECOM_KF_TOKEN || !WECOM_KF_ENCODING_AES_KEY || !WECOM_CORP_ID
Misconfigured(e) ==
  Falsy(e.WECOM_KF_TOKEN) \/ Falsy(e.WECOM_KF_ENCODING_AES_KEY)
    \/ Falsy(e.WECOM_CORP_ID)

\* A handler that goes on whatever the verifier said.
SignatureNeverRejected(ok) == FALSE

\* if (!ok)
SignatureRejected(ok) == ~ok

\* A body with a line feed after the plaintext.
PlaintextLine(plaintext) == plaintext \o <<10>>

\* reply.code(200).type("text/plain").send(plaintext)
SendPlaintext(plaintext) == plaintext

\* The name of the error as the body.
CatchDetail(err) ==
  IF err \in {"EncodingAESKey length", "AES key length"} THEN MisconfiguredBody
  ELSE IF err = "CorpID mismatch" THEN MissingParamsBody
  ELSE IF err = "Bad msgLen" THEN << >>
  ELSE VerificationFailedBody

\* catch (err) { ... send("Verification failed") }
CatchBody(err) == VerificationFailedBody

KfCallbackGet(e, q) ==
  LET Verified(ok) ==
        [fn |-> "verifyWecomSignature", data |-> q.echostr, ok |-> ok,
         err |-> "", msg |-> << >>]
      Decrypted(res) ==
        [fn |-> "decryptWecomEchoStr", data |-> q.echostr, ok |-> res.ok,
         err |-> res.err, msg |-> res.msg]
      FromPlaintext(ok, res) ==
        IF res.ok
        THEN [code |-> 200, type |-> TextPlain, body |-> SendPlaintext(res.msg),
              calls |-> <<Verified(ok), Decrypted(res)>>]
        ELSE [code |-> 500, type |-> TextPlain, body |-> CatchBody(res.err),
              calls |-> <<Verified(ok), Decrypted(res)>>]
      FromOk(ok) ==
        IF SignatureRejected(ok)
        THEN [code |-> 403, type |-> TextPlain, body |-> VerificationFailedBody,
              calls |-> <<Verified(ok)>>]
        ELSE FromPlaintext(ok, decryptWecomEchoStr(e.WECOM_KF_ENCODING_AES_KEY,
                                                   e.WECOM_CORP_ID, q.echostr))
  IN  IF MissingParams(q)
      THEN [code |-> 400, type |-> TextPlain, body |-> MissingParamsBody,
            calls |-> << >>]
      ELSE IF Misconfigured(e)
      THEN [code |-> 500, type |-> TextPlain, body |-> MisconfiguredBody,
            calls |-> << >>]
      ELSE FromOk(verifyWecomSignature(e.WECOM_KF_TOKEN, q.timestamp, q.nonce,
                                       q.msg_signature, q.echostr))

(***************************************************************************)
(* The platform's side of the handshake: how a challenge is assembled,     *)
(* encrypted and encoded, and how a request is signed.                     *)
(***************************************************************************)
Base64Char(v) ==
  IF v < 26 THEN 65 + v
  ELSE IF v < 52 THEN 71 + v
  ELSE IF v < 62 THEN v - 4
  ELSE IF v = 62 THEN 43 ELSE 47

\* Character k of the standard base64 of b, '=' where the last group is short.
Base64At(b, k) ==
  LET g  == 3 * ((k - 1) \div 4)
      b1 == b[g + 1]
      b2 == IF g + 2 <= Len(b) THEN b[g + 2] ELSE 0
      b3 == IF g + 3 <= Len(b) THEN b[g + 3] ELSE 0
  IN  IF k % 4 = 1 THEN Base64Char(b1 \div 4)
      ELSE IF k % 4 = 2 THEN Base64Char((b1 % 4) * 16 + (b2 \div 16))
      ELSE IF k % 4 = 3
        THEN IF g + 2 > Len(b) THEN 61 ELSE Base64Char((b2 % 16) * 4 + (b3 \div 64))
      ELSE IF g + 3 > Len(b) THEN 61 ELSE Base64Char(b3 % 64)

\* Standard base64 with '=' padding.
Base64Encode(b) ==
  LET n == 4 * ((Len(b) + 2) \div 3)
  IN  SubSeq([k \in 1..n |-> Base64At(b, k)], 1, n)

\* The 43-character key material of a 32-byte key: its base64 without the '='.
EncodingAESKeyOf(key) == SubSeq(Base64Encode(key), 1, 43)

\* PKCS#7: n bytes of value n up to the next multiple of the block size.
Pkcs7Pad(bytes) ==
  LET n == 16 - (Len(bytes) % 16)
  IN  bytes \o SubSeq([i \in 1..n |-> n], 1, n)

\* CBC encryption from block st[3] on; st = <<ciphertext so far, last
\* ciphertext block, next block>>.
RECURSIVE CbcEncryptBlocks(_, _, _)
CbcEncryptBlocks(st, plain, w) ==
  IF 16 * st[3] > Len(plain) THEN st[1]
  ELSE LET After(c) == CbcEncryptBlocks(<<st[1] \o c, c, st[3] + 1>>, plain, w)
       IN  After(Cipher(XorBytes(SubSeq(plain, 16 * st[3] - 15, 16 * st[3]), st[2]), w))

\* AES-256-CBC under the key, with the key's first 16 bytes as the IV, of a
\* plaintext that is already a whole number of blocks, in base64.
EncryptBlocks(key, padded) ==
  Base64Encode(CbcEncryptBlocks(<<<< >>, SubSeq(key, 1, 16), 1>>, padded,
                                KeyExpansion(key)))

\* random(16) + the length field + the message + the tenant identifier.  The
\* length field is given as <<high 16 bits, low 16 bits>>.
Layout(random, lengthField, msg, tenant) ==
  random \o BigEndian(lengthField[1], 2) \o BigEndian(lengthField[2], 2)
    \o Utf8Encode(msg) \o Utf8Encode(tenant)

\* The challenge the platform sends for a message and a tenant identifier.
EncryptChallenge(key, random, msg, tenant) ==
  EncryptBlocks(key,
    Pkcs7Pad(Layout(random, <<0, Len(Utf8Encode(msg))>>, msg, tenant)))

\* The orders of four elements.
Orders == {p \in [1..4 -> 1..4] : \A i, j \in 1..4 : p[i] = p[j] => i = j}

\* The order that puts the four sequences of a in ascending order.
Ascending(a) ==
  CHOOSE o \in Orders : \A i \in 1..3 : ~SeqLess(a[o[i + 1]], a[o[i]])

\* The signature as the specification computes it: the lowercase hexadecimal
\* SHA-1 of the four strings' UTF-8 bytes, put in ascending byte-wise order
\* and concatenated.
SignatureOf(token, timestamp, nonce, payload) ==
  LET Ordered(b, p) == Hex(Sha1(b[p[1]] \o b[p[2]] \o b[p[3]] \o b[p[4]]))
      Bytewise(b) == Ordered(b, Ascending(b))
  IN  Bytewise(<<Utf8Encode(token), Utf8Encode(timestamp), Utf8Encode(nonce),
                 Utf8Encode(payload)>>)

\* The signature with character i replaced by another hexadecimal digit.
FlipChar(sig, i) == [sig EXCEPT ![i] = IF @ = 48 THEN 49 ELSE 48]

\* The signature in uppercase hexadecimal.
UpperHex(sig) == SubSeq([i \in 1..Len(sig) |-> IF sig[i] >= 97 THEN sig[i] - 32 ELSE sig[i]], 1, Len(sig))

(***************************************************************************)
(* The values the model draws its inputs from.                             *)
(***************************************************************************)
\* The longest prefix of Text taken as a message.
MaxMsgLen == 3

\* The number of leading signature characters that are altered, one at a time.
MaxFlip == 2

Text == <<118, 101, 114, 105, 102, 105, 99, 97, 116, 105, 111, 110, 45, 111, 107>>   \* "verification-ok"

Accented == <<104, 233, 8364, 55357, 56832>>   \* "h", e acute, euro sign, U+1F600

CorpA == <<119, 120, 67, 79, 82, 80, 49, 50, 51>>   \* "wxCORP123"

CorpB == <<119, 120, 79, 84, 72, 69, 82>>   \* "wxOTHER"

Tok == <<116, 111, 107>>   \* "tok"

Timestamp1 == <<49, 55, 48, 48, 48, 48, 48, 48, 48, 48>>   \* "1700000000"

Nonce1 == <<97, 98, 99, 49, 50, 51>>   \* "abc123"

ChallengeXYZ == <<99, 104, 97, 108, 108, 101, 110, 103, 101, 88, 89, 90>>   \* "challengeXYZ"

Key1 ==
  <<0, 1, 2, 3, 4, 5, 6, 7, 8, 9, 10, 11, 12, 13, 14, 15,
    16, 17, 18, 19, 20, 21, 22, 23, 24, 25, 26, 27, 28, 29, 30, 31>>

Key2 ==
  <<255, 238, 221, 204, 187, 170, 153, 136, 119, 102, 85, 68, 51, 34, 17, 0,
    1, 35, 69, 103, 137, 171, 205, 239, 254, 220, 186, 152, 118, 84, 50, 16>>

Random1 == <<48, 49, 50, 51, 52, 53, 54, 55, 56, 57, 97, 98, 99, 100, 101, 102>>   \* "0123456789abcdef"

Messages == {SubSeq(Text, 1, n) : n \in 0..MaxMsgLen} \cup {Text, Accented}

Tenants == {CorpA, CorpB, << >>}

\* Well-formed challenges, each with the message and tenant it was made of and
\* the key material of its key.
Challenges ==
  {[key |-> EncodingAESKeyOf(Key1), msg |-> m, tenant |-> t,
    echostr |-> EncryptChallenge(Key1, Random1, m, t)] :
     m \in Messages, t \in Tenants}
  \cup {[key |-> EncodingAESKeyOf(Key2), msg |-> Text, tenant |-> CorpA,
         echostr |-> EncryptChallenge(Key2, Random1, Text, CorpA)]}

\* Length fields above what follows them: by one, by more than the buffer,
\* 2^31, 2^32 - 16 (which is 4 when 20 is added modulo 2^32), 2^32 - 1.
BadLengths == {<<0, 13>>, <<0, 200>>, <<32768, 0>>, <<65535, 65520>>, <<65535, 65535>>}

\* Challenges whose length field exceeds the buffer (3 + 9 bytes follow it).
LongChallenges ==
  {[len |-> l,
    echostr |-> EncryptBlocks(Key1,
                  Pkcs7Pad(Layout(Random1, l, SubSeq(Text, 1, 3), CorpA)))] :
     l \in BadLengths}

\* Challenges whose plaintext is shorter than the 20 bytes before the message.
ShortChallenges ==
  {[len |-> n, echostr |-> EncryptBlocks(Key1, Pkcs7Pad(SubSeq(Random1 \o Random1, 1, n)))] :
     n \in {0, 10, 16, 19}}

\* Two blocks that do not end in padding: a last byte of 0, of 17, and a last
\* byte 3 that the two bytes before it do not repeat.
BadPaddings ==
  {EncryptBlocks(Key1, Random1 \o SubSeq(Random1, 1, 15) \o <<0>>),
   EncryptBlocks(Key1, Random1 \o SubSeq(Random1, 1, 15) \o <<17>>),
   EncryptBlocks(Key1, Random1 \o SubSeq(Random1, 1, 13) \o <<3, 2, 3>>)}

\* Ciphertexts that are not a whole number of blocks.
Misaligned ==
  {SubSeq(EncryptChallenge(Key1, Random1, Text, CorpA), 1, 28),
   <<33, 33, 33, 33>>}

Echostrs ==
  {c.echostr : c \in Challenges} \cup {c.echostr : c \in LongChallenges}
    \cup {c.echostr : c \in ShortChallenges} \cup BadPaddings \cup Misaligned

EncodingAESKey1 == EncodingAESKeyOf(Key1)

\* Key material of the wrong length after trimming: none, empty, white space,
\* one character short or long, and 43 characters of which one is a space in
\* front.
WrongLengthKeys ==
  {Undefined, << >>, <<32, 10>>,
   SubSeq(EncodingAESKey1, 1, 42),
   EncodingAESKey1 \o <<65>>,
   <<32>> \o SubSeq(EncodingAESKey1, 1, 42)}

\* Key material of 43 characters that does not decode to 32 bytes: one that is
\* not of the alphabet, and a '=' inside.
UndecodableKeys ==
  {SubSeq(EncodingAESKey1, 1, 20) \o <<33>> \o SubSeq(EncodingAESKey1, 22, 43),
   SubSeq(EncodingAESKey1, 1, 30) \o <<61>> \o SubSeq(EncodingAESKey1, 32, 43)}

\* Key material that is right: of either key, and inside white space.
GoodKeys ==
  {EncodingAESKey1, EncodingAESKeyOf(Key2), <<32, 9>> \o EncodingAESKey1 \o <<10>>}

EncodingAESKeys == WrongLengthKeys \cup UndecodableKeys \cup GoodKeys

CorpIds == {Undefined, << >>, CorpA, CorpB}

\* What the process environment holds: the token, the key material (right, or
\* one character short) and the tenant identifier, each possibly unset.
Envs ==
  [WECOM_KF_TOKEN : {Undefined, Tok},
   WECOM_KF_ENCODING_AES_KEY : {Undefined, EncodingAESKey1, SubSeq(EncodingAESKey1, 1, 42)},
   WECOM_CORP_ID : {Undefined, CorpA, CorpB}]

\* The request the platform sends for a challenge, signed with the token Tok.
SignedQuery(echostr) ==
  [msg_signature |-> SignatureOf(Tok, Timestamp1, Nonce1, echostr),
   timestamp |-> Timestamp1, nonce |-> Nonce1, echostr |-> echostr]

SignedQueries == {SignedQuery(s) : s \in Echostrs}

\* Requests whose signature is wrong in one character.
ForgedQueries ==
  {[SignedQuery(EncryptChallenge(Key1, Random1, Text, t))
      EXCEPT !.msg_signature = FlipChar(@, i)] :
     t \in {CorpA, CorpB}, i \in 1..MaxFlip}

QueryFields == {"msg_signature", "timestamp", "nonce", "echostr"}

\* Requests with one parameter absent or empty, and the request without any.
PartialQueries ==
  {[SignedQuery(EncryptChallenge(Key1, Random1, Text, CorpA)) EXCEPT ![f] = v] :
     f \in QueryFields, v \in {Undefined, << >>}}
  \cup {[msg_signature |-> Undefined, timestamp |-> Undefined,
         nonce |-> Undefined, echostr |-> Undefined]}

Queries == SignedQueries \cup ForgedQueries \cup PartialQueries

\* Code units that order differently as UTF-16 and as UTF-8: U+FF61 is above
\* the surrogates of U+1F600 as a code unit, and below U+1F600 as bytes.
HalfwidthStop == <<65377>>

GrinningFace == <<55357, 56832>>

\* Three strings to be the timestamp, the nonce and the payload in any order.
Triples ==
  {<<Timestamp1, Nonce1, ChallengeXYZ>>,
   <<SubSeq(Nonce1, 1, 3), Nonce1, SubSeq(Nonce1, 1, 2)>>,
   <<HalfwidthStop, GrinningFace, <<120>>>>}

\* The orders of three elements.
Orders3 == {p \in [1..3 -> 1..3] : \A i, j \in 1..3 : p[i] = p[j] => i = j}

\* The signature of the four strings put in ascending order of their code
\* units.
SignatureByCodeUnits(token, timestamp, nonce, payload) ==
  LET Ordered(a, p) ==
        Hex(Sha1(Utf8Encode(a[p[1]] \o a[p[2]] \o a[p[3]] \o a[p[4]])))
      ByUnits(a) == Ordered(a, Ascending(a))
  IN  ByUnits(<<token, timestamp, nonce, payload>>)

\* The signatures tried for three strings: the right one, the one of the code
\* unit order, the right one in uppercase, and with one character altered.
SignaturesFor(t) ==
  LET Around(sig) ==
        {sig, SignatureByCodeUnits(Tok, t[1], t[2], t[3]), UpperHex(sig)}
          \cup {FlipChar(sig, i) : i \in 1..MaxFlip}
  IN  Around(SignatureOf(Tok, t[1], t[2], t[3]))

\* The calls of verifyWecomSignature the model makes.
VerifyInputs ==
  UNION {{[token |-> Tok, timestamp |-> t[p[1]], nonce |-> t[p[2]],
           signature |-> s, data |-> t[p[3]]] :
            p \in Orders3, s \in SignaturesFor(t)} : t \in Triples}

\* The same call with the timestamp, the nonce and the payload in every order.
Reorderings(a) ==
  LET t == <<a.timestamp, a.nonce, a.data>>
  IN  {[a EXCEPT !.timestamp = t[p[1]], !.nonce = t[p[2]], !.data = t[p[3]]] :
         p \in Orders3}

\* The calls of decryptWecomEchoStr the model makes.
DecryptInputs ==
  [encodingAESKey : EncodingAESKeys, corpId : CorpIds, echostrB64 : Echostrs]

(***************************************************************************)
(* The routes of src/server.js that stand behind the shared secret, the    *)
(* access tokens they fetch and cache, and the forwarding of the           *)
(* platform's events.  A string is its code units, as above; null is       *)
(* written Undefined, the two are told apart nowhere in this code.         *)
(***************************************************************************)
BearerPrefix == <<66, 101, 97, 114, 101, 114, 32>>   \* "Bearer "

UndefinedString == <<117, 110, 100, 101, 102, 105, 110, 101, 100>>   \* "undefined"

SuccessBody == <<115, 117, 99, 99, 101, 115, 115>>   \* "success"

\* `${x}`
TemplateString(x) == IF x = Undefined THEN UndefinedString ELSE x

\* A check of the header alone.
requireAuthHeaderOnly(secret, authorization) ==
  (IF Falsy(authorization) THEN << >> ELSE authorization)
    = BearerPrefix \o TemplateString(secret)

\* requireAuth(req): TRUE where it returns, FALSE where it throws the error
\* with statusCode 401.
requireAuth(secret, authorization) ==
  ~(Falsy(secret)
      \/ (IF Falsy(authorization) THEN << >> ELSE authorization)
           # BearerPrefix \o TemplateString(secret))

\* A cached token that is still returned at the instant of its expiry.
CacheHitThroughExpiry(token, now, expiry) == ~Falsy(token) /\ now <= expiry

\* cachedToken && now < tokenExpiryMs
CacheHit(token, now, expiry) == ~Falsy(token) /\ now < expiry

\* now + (data.expires_in - 60) * 1000
TokenExpiryMs(now, expires_in) == now + (expires_in - 60) * 1000

\* An answer of the platform that is never taken as a failure.
GetTokenNeverFailed(res) == FALSE

\* !res.ok || data.errcode !== 0
GetTokenFailed(res) == ~res.ok \/ res.errcode # 0

\* The three handlers of POST /wecom/kf-callback, once the forward is made,
\* on what became of it: "2xx", "5xx", or "reject" where fetch (or the
\* reading of the answer) rejects.  An error that leaves a handler is
\* answered by Fastify with the error's statusCode, or 500.
KfCallbackPost(handler, outcome) ==
  IF handler = "src/unnamed/part_000:530"
  THEN [code |-> 200, body |-> SuccessBody, err |-> ""]
  ELSE IF outcome = "reject"
  THEN [code |-> 500, body |-> << >>, err |-> "fetch failed"]
  ELSE [code |-> 200, body |-> SuccessBody, err |-> ""]

KfRoutes == {"GET /wecom/kf-token", "POST /wecom/kf-sync", "POST /wecom/kf-send"}

ProtectedRoutes == {"POST /wecom/send"} \cup KfRoutes

KfCallbackPostHandlers ==
  {"src/server.js:167", "src/unnamed/part_000:257", "src/unnamed/part_000:530"}

\* No answer of the platform.
NoResponse ==
  [kind |-> "none", ok |-> FALSE, errcode |-> 0, access_token |-> Undefined,
   expires_in |-> 0]

\* The calls of a token getter by itself: getWecomAccessToken with the
\* enterprise credentials, as POST /wecom/send calls it, getKfAccessToken of
\* src/wecom.js, and getKFAccessToken of src/server.js.
GetterCalls == {"getWecomAccessToken", "getKfAccessToken", "getKFAccessToken"}

\* A request, or a call, that has run up to an await: where it waits (pc),
\* and of its call of the token getter the time it started at (the getter of
\* src/wecom.js keeps it), the secret it asks with, the token it returned,
\* and whether that came from the cache.
Task(r, pc, now, secret, token, hit) ==
  [route |-> r.route, handler |-> r.handler, auth |-> r.auth, pc |-> pc,
   now |-> now, secret |-> secret, token |-> token, hit |-> hit]

\* A request that ended: its reply (code 0 where a getter was called by
\* itself), the error that ended it if one did, and the answer of the
\* platform or the outcome of the outbound call that it ended on.
Completed(t, code, body, err, res, outcome) ==
  [route |-> t.route, handler |-> t.handler, auth |-> t.auth, now |-> t.now,
   secret |-> t.secret, token |-> t.token, hit |-> t.hit, code |-> code,
   body |-> body, err |-> err, res |-> res, outcome |-> outcome]

\* The status Fastify answers an error with that left the handler of t.
ErrorCode(t) == IF t.route \in GetterCalls THEN 0 ELSE 500

Without(s, i) == SubSeq(s, 1, i - 1) \o SubSeq(s, i + 1, Len(s))

\* The clock stops at this many seconds.
MaxClock == 2

\* The number of requests that wait at an await at one time.
MaxInFlight == 2

Shared1 == <<115, 51, 99, 114, 101, 116>>   \* "s3cret"

EntSecret == <<101, 110, 116>>   \* "ent"

KfSecret == <<107, 102>>   \* "kf"

FunctionsUrl == <<104, 116, 116, 112, 115, 58, 47, 47, 102>>   \* "https://f"

\* The server fully configured, and with the shared secret or the URL of the
\* backend left out.
Confs ==
  {[PROXY_SHARED_SECRET |-> s, WECOM_SECRET |-> EntSecret,
    WECOM_KF_SECRET |-> KfSecret, SUPABASE_FUNCTIONS_URL |-> FunctionsUrl] :
     s \in {Shared1, Undefined, << >>}}
  \cup {[PROXY_SHARED_SECRET |-> Shared1, WECOM_SECRET |-> EntSecret,
         WECOM_KF_SECRET |-> KfSecret, SUPABASE_FUNCTIONS_URL |-> Undefined]}

Conf1 == CHOOSE c \in Confs : ~Falsy(c.PROXY_SHARED_SECRET) /\ ~Falsy(c.SUPABASE_FUNCTIONS_URL)

Env1 ==
  [WECOM_KF_TOKEN |-> Tok, WECOM_KF_ENCODING_AES_KEY |-> EncodingAESKey1,
   WECOM_CORP_ID |-> CorpA]

\* Authorization headers: none, the right one, the ones that the template
\* string gives for a secret that is not set or empty, and the secret alone.
AuthHeaders ==
  {Undefined, BearerPrefix \o Shared1, BearerPrefix \o UndefinedString,
   BearerPrefix, Shared1}

\* The access token the platform gives out for a secret; within its lifetime
\* the platform answers every gettoken with the same one.
AccessToken(secret) == <<116, 45>> \o secret

\* The lifetimes the platform gives, in seconds: one second past the 60 that
\* getWecomAccessToken takes off, and past the 300 of getKFAccessToken.
ExpiresIn == {61, 301}

\* What becomes of a fetch of gettoken made with a secret: it rejects, or
\* the platform answers with an error and no token, with HTTP 200 or not,
\* or with a token.
GetTokenResponses(secret) ==
  {[kind |-> "reject", ok |-> FALSE, errcode |-> 0, access_token |-> Undefined,
    expires_in |-> 0],
   [kind |-> "json", ok |-> TRUE, errcode |-> 40001, access_token |-> Undefined,
    expires_in |-> 0],
   [kind |-> "json", ok |-> FALSE, errcode |-> -1, access_token |-> Undefined,
    expires_in |-> 0]}
  \cup {[kind |-> "json", ok |-> TRUE, errcode |-> 0,
         access_token |-> AccessToken(secret), expires_in |-> e] :
          e \in ExpiresIn}

\* The requests to the protected routes, with every header; one of them to
\* POST /wecom/send has no toUser.
ProtectedRequests ==
  {[route |-> p, handler |-> "src/server.js", auth |-> a, toUser |-> <<117>>,
    content |-> <<104, 105>>] : p \in ProtectedRoutes, a \in AuthHeaders}
  \cup {[route |-> "POST /wecom/send", handler |-> "src/server.js",
         auth |-> BearerPrefix \o Shared1, toUser |-> Undefined,
         content |-> <<104, 105>>]}

\* The events the platform posts, to each of the three handlers.
EventRequests ==
  {[route |-> "POST /wecom/kf-callback", handler |-> h, auth |-> Undefined,
    toUser |-> Undefined, content |-> Undefined] : h \in KfCallbackPostHandlers}

\* The calls of the token getters.
TokenRequests ==
  {[route |-> p, handler |-> IF p = "getKFAccessToken" THEN "src/server.js" ELSE "src/wecom.js",
    auth |-> Undefined, toUser |-> Undefined, content |-> Undefined] :
     p \in GetterCalls}

NoRequest ==
  [route |-> "", handler |-> "", auth |-> Undefined, now |-> 0,
   secret |-> Undefined, token |-> Undefined, hit |-> FALSE, code |-> 0,
   body |-> << >>, err |-> "", res |-> NoResponse, outcome |-> ""]

EmptyCache ==
  [cachedToken |-> Undefined, tokenExpiryMs |-> 0, kfAccessToken |-> Undefined,
   kfTokenExpiry |-> 0]

(***************************************************************************)
(* The state machine.                                                      *)
(*   env, query, phase, reply, calls, earlier: the server, one request at  *)
(*     a time (the handler has no await in it): the environment read at    *)
(*     start, the request's query, whether it is received or replied to,   *)
(*     the reply, the calls made for it, and the reply to the latest       *)
(*     earlier request whose challenge did not decrypt.                    *)
(*   vin, vout: a call of verifyWecomSignature and what it returned.       *)
(*   din, dout: a call of decryptWecomEchoStr and what it returned or      *)
(*     threw.                                                              *)
(*   conf: the rest of the environment read at start.                      *)
(*   clock: the time, in seconds; Date.now() is 1000 times it.             *)
(*   cache: the process-wide variables of src/wecom.js and src/server.js   *)
(*     that hold the access tokens and their expiries.                     *)
(*   inflight: the requests whose handler is suspended at an await, in     *)
(*     order of arrival.                                                   *)
(*   finished: the request that ended last, with what ended it.            *)
(*   seen: every request to GET /wecom/kf-callback answered so far, with   *)
(*     its reply, the calls made for it, and whether a token was cached.   *)
(***************************************************************************)
VARIABLES env, query, phase, reply, calls, earlier, vin, vout, din, dout,
          conf, clock, cache, inflight, finished, seen

vars == <<env, query, phase, reply, calls, earlier, vin, vout, din, dout,
          conf, clock, cache, inflight, finished, seen>>

\* The state of the GET /wecom/kf-callback handler and of the two functions.
kvars == <<env, query, phase, reply, calls, earlier, vin, vout, din, dout>>

\* The state of the token caches and of the requests that use them.
tvars == <<conf, clock, cache, inflight, finished>>

\* No request to the token routes yet.
TokensIdle ==
  /\ conf = Conf1 /\ clock = 0 /\ cache = EmptyCache
  /\ inflight = << >> /\ finished = NoRequest

NoQuery ==
  [msg_signature |-> Undefined, timestamp |-> Undefined, nonce |-> Undefined,
   echostr |-> Undefined]

NoReply == [code |-> 0, type |-> "", body |-> << >>]

NoFailure == [err |-> "", code |-> 0, type |-> "", body |-> << >>]

NoVerify ==
  [token |-> << >>, timestamp |-> << >>, nonce |-> << >>, signature |-> << >>,
   data |-> << >>]

NoDecrypt == [encodingAESKey |-> Undefined, corpId |-> Undefined, echostrB64 |-> << >>]

NotVerified == [done |-> FALSE, value |-> FALSE]

NotDecrypted == [done |-> FALSE, ok |-> FALSE, err |-> "", msg |-> << >>, steps |-> << >>]

ServerIdle ==
  /\ env = [WECOM_KF_TOKEN |-> Undefined, WECOM_KF_ENCODING_AES_KEY |-> Undefined,
            WECOM_CORP_ID |-> Undefined]
  /\ query = NoQuery /\ phase = "idle" /\ reply = NoReply
  /\ calls = << >> /\ earlier = NoFailure
  /\ TokensIdle /\ seen = {}

\* The call of decryptWecomEchoStr among the calls, if it threw.
ThrownBy(log) ==
  IF Len(log) = 2 /\ ~log[2].ok THEN log[2].err ELSE ""

\* The server started with its environment; no request yet.
Init ==
  /\ env \in Envs
  /\ query = NoQuery /\ phase = "idle" /\ reply = NoReply /\ calls = << >>
  /\ earlier = NoFailure
  /\ vin = NoVerify /\ vout = NotVerified
  /\ din = NoDecrypt /\ dout = NotDecrypted
  /\ TokensIdle /\ seen = {}

\* A GET /wecom/kf-callback request arrives.
Receive(q) ==
  /\ phase \in {"idle", "replied"}
  /\ query' = q
  /\ phase' = "received"
  /\ reply' = NoReply
  /\ calls' = << >>
  /\ earlier' = IF ThrownBy(calls) # ""
                THEN [err |-> ThrownBy(calls), code |-> reply.code,
                      type |-> reply.type, body |-> reply.body]
                ELSE earlier
  /\ UNCHANGED <<env, vin, vout, din, dout>>
  /\ UNCHANGED <<tvars, seen>>

\* A handler that verifies with the access token of the KF routes, once
\* there is one, in place of the token of the callback.
HandleWithAccessToken ==
  /\ phase = "received"
  /\ LET Sent(r) ==
           /\ reply' = [code |-> r.code, type |-> r.type, body |-> r.body]
           /\ calls' = r.calls
     IN  Sent(KfCallbackGet([env EXCEPT !.WECOM_KF_TOKEN =
                                IF Falsy(cache.kfAccessToken) THEN @
                                ELSE cache.kfAccessToken], query))
  /\ phase' = "replied"
  /\ UNCHANGED <<env, query, earlier, vin, vout, din, dout>>
  /\ UNCHANGED tvars

\* The handler runs to its reply.  What becomes of seen is said by the
\* specification the handler runs in.
Handle ==
  /\ phase = "received"
  /\ LET Sent(r) ==
           /\ reply' = [code |-> r.code, type |-> r.type, body |-> r.body]
           /\ calls' = r.calls
     IN  Sent(KfCallbackGet(env, query))
  /\ phase' = "replied"
  /\ UNCHANGED <<env, query, earlier, vin, vout, din, dout>>
  /\ UNCHANGED tvars

Next == (\E q \in Queries : Receive(q)) \/ (Handle /\ UNCHANGED seen)

Spec == Init /\ [][Next]_vars

\* A call of verifyWecomSignature is about to be made.
InitVerify ==
  /\ ServerIdle
  /\ vin \in VerifyInputs /\ vout = NotVerified
  /\ din = NoDecrypt /\ dout = NotDecrypted

\* verifyWecomSignature is called, with the arguments of vin or with its
\* timestamp, nonce and payload in another order, and returns.
CallVerify(a) ==
  /\ vin' = a
  /\ vout' = [done |-> TRUE,
              value |-> verifyWecomSignature(a.token, a.timestamp, a.nonce,
                                             a.signature, a.data)]
  /\ UNCHANGED <<env, query, phase, reply, calls, earlier, din, dout>>
  /\ UNCHANGED <<tvars, seen>>

NextVerify == \E a \in Reorderings(vin) : CallVerify(a)

SpecVerify == InitVerify /\ [][NextVerify]_vars

\* A call of decryptWecomEchoStr is about to be made.
InitDecrypt ==
  /\ ServerIdle
  /\ vin = NoVerify /\ vout = NotVerified
  /\ din \in DecryptInputs /\ dout = NotDecrypted

\* decryptWecomEchoStr is called and returns or throws.
CallDecrypt ==
  /\ ~dout.done
  /\ LET Ended(r) ==
           dout' = [done |-> TRUE, ok |-> r.ok, err |-> r.err, msg |-> r.msg,
                    steps |-> r.steps]
     IN  Ended(decryptWecomEchoStr(din.encodingAESKey, din.corpId, din.echostrB64))
  /\ UNCHANGED <<env, query, phase, reply, calls, earlier, vin, vout, din>>
  /\ UNCHANGED <<tvars, seen>>

NextDecrypt == CallDecrypt

SpecDecrypt == InitDecrypt /\ [][NextDecrypt]_vars

(***************************************************************************)
(* The requests that take a token or forward an event.  A step runs a     *)
(* handler from where it is up to its next await, or to its end.           *)
(***************************************************************************)
\* A request arrives, or a token getter is called: the handler, or the
\* getter, runs to its first await.
Arrive(r) ==
  /\ LET Replied(f) == finished' = f /\ UNCHANGED inflight
         Suspended(t) == inflight' = Append(inflight, t) /\ UNCHANGED finished
         Unauthorized ==
           Replied(Completed(Task(r, "", 0, Undefined, Undefined, FALSE), 401, << >>,
                         "Unauthorized", NoResponse, ""))
         Throws(err) ==
           Replied(Completed(Task(r, "", 0, Undefined, Undefined, FALSE),
                         ErrorCode(r), << >>, err, NoResponse, ""))
         \* The getter returns a token: its caller replies with it, or goes
         \* on to its own fetch.
         Returns(t) ==
           IF r.route \in GetterCalls \cup {"GET /wecom/kf-token"}
           THEN Replied(Completed(t, IF r.route \in GetterCalls THEN 0 ELSE 200,
                                  << >>, "", NoResponse, ""))
           ELSE Suspended([t EXCEPT !.pc = "api"])
         \* getWecomAccessToken({ corpId, corpSecret }) up to await fetch(url)
         WecomAccessToken(now, secret) ==
           IF CacheHit(cache.cachedToken, now, cache.tokenExpiryMs)
           THEN Returns(Task(r, "", now, secret, cache.cachedToken, TRUE))
           ELSE Suspended(Task(r, "gettoken", now, secret, Undefined, FALSE))
         \* getKFAccessToken() up to await fetch(...)
         KFAccessToken(now) ==
           IF ~Falsy(cache.kfAccessToken) /\ now < cache.kfTokenExpiry
           THEN Returns(Task(r, "", 0, conf.WECOM_KF_SECRET, cache.kfAccessToken,
                             TRUE))
           ELSE IF Falsy(env.WECOM_CORP_ID) \/ Falsy(conf.WECOM_KF_SECRET)
           THEN Throws("Missing WECOM_CORP_ID or WECOM_KF_SECRET")
           ELSE Suspended(Task(r, "gettoken", 0, conf.WECOM_KF_SECRET,
                               Undefined, FALSE))
     IN  IF r.route = "POST /wecom/send"
         THEN IF ~requireAuth(conf.PROXY_SHARED_SECRET, r.auth) THEN Unauthorized
              ELSE IF Falsy(r.toUser) \/ Falsy(r.content)
              THEN Replied(Completed(Task(r, "", 0, Undefined, Undefined, FALSE), 400,
                                 << >>, "", NoResponse, ""))
              ELSE WecomAccessToken(clock * 1000, conf.WECOM_SECRET)
         ELSE IF r.route \in KfRoutes
         THEN IF ~requireAuth(conf.PROXY_SHARED_SECRET, r.auth) THEN Unauthorized
              ELSE KFAccessToken(clock * 1000)
         ELSE IF r.route = "getWecomAccessToken"
         THEN WecomAccessToken(clock * 1000, conf.WECOM_SECRET)
         ELSE IF r.route = "getKfAccessToken"
         THEN IF Falsy(env.WECOM_CORP_ID) \/ Falsy(conf.WECOM_KF_SECRET)
              THEN Throws("Missing WECOM_CORP_ID or WECOM_KF_SECRET")
              ELSE WecomAccessToken(clock * 1000, conf.WECOM_KF_SECRET)
         ELSE IF r.route = "getKFAccessToken"
         THEN KFAccessToken(clock * 1000)
         ELSE IF Falsy(conf.SUPABASE_FUNCTIONS_URL)
         THEN Throws("Missing SUPABASE_FUNCTIONS_URL")
         ELSE Suspended(Task(r, "forward", 0, Undefined, Undefined, FALSE))
  /\ UNCHANGED <<conf, clock, cache, seen>>
  /\ UNCHANGED kvars

\* The fetch of gettoken that request i waits for ends: the getter stores the
\* token and returns it, and the caller goes on to its own fetch or to its
\* reply; or the getter throws.
TokenResponse(i, res) ==
  /\ i \in DOMAIN inflight
  /\ inflight[i].pc = "gettoken"
  /\ LET Throws(t, err) ==
           /\ finished' = Completed(t, ErrorCode(t), << >>, err, res, "")
           /\ inflight' = Without(inflight, i)
           /\ UNCHANGED cache
         Returns(t) ==
           IF t.route \in GetterCalls \cup {"GET /wecom/kf-token"}
           THEN /\ finished' = Completed(t, IF t.route \in GetterCalls THEN 0 ELSE 200,
                                         << >>, "", res, "")
                /\ inflight' = Without(inflight, i)
           ELSE /\ inflight' = [inflight EXCEPT ![i] = [t EXCEPT !.pc = "api"]]
                /\ UNCHANGED finished
         \* getKFAccessToken() from the answer on
         KFAccessToken(t) ==
           IF res.kind = "reject" THEN Throws(t, "fetch failed")
           ELSE IF ~Falsy(res.access_token)
           THEN /\ cache' = [cache EXCEPT
                               !.kfAccessToken = res.access_token,
                               !.kfTokenExpiry = clock * 1000 + (res.expires_in - 300) * 1000]
                /\ Returns([t EXCEPT !.token = res.access_token])
           ELSE Throws(t, "KF token error")
         \* getWecomAccessToken() from the answer on
         WecomAccessToken(t) ==
           IF res.kind = "reject" THEN Throws(t, "fetch failed")
           ELSE IF GetTokenFailed(res) THEN Throws(t, "gettoken failed")
           ELSE /\ cache' = [cache EXCEPT
                               !.cachedToken = res.access_token,
                               !.tokenExpiryMs = TokenExpiryMs(t.now, res.expires_in)]
                /\ Returns([t EXCEPT !.token = res.access_token])
     IN  IF inflight[i].route \in KfRoutes \cup {"getKFAccessToken"}
         THEN KFAccessToken(inflight[i])
         ELSE WecomAccessToken(inflight[i])
  /\ UNCHANGED <<conf, clock, seen>>
  /\ UNCHANGED kvars

\* The call of the platform that request i made with its token ends:
\* "ok", "error" where the answer is not res.ok with errcode 0, or "reject".
\* wecomSendText throws on an error; the KF routes return whatever JSON came.
ApiResponse(i, outcome) ==
  /\ i \in DOMAIN inflight
  /\ inflight[i].pc = "api"
  /\ LET Replied(t) ==
           IF outcome = "reject"
           THEN Completed(t, ErrorCode(t), << >>, "fetch failed", NoResponse, outcome)
           ELSE IF outcome = "error" /\ t.route = "POST /wecom/send"
           THEN Completed(t, ErrorCode(t), << >>, "message/send failed",
                          NoResponse, outcome)
           ELSE Completed(t, 200, << >>, "", NoResponse, outcome)
     IN  finished' = Replied(inflight[i])
  /\ inflight' = Without(inflight, i)
  /\ UNCHANGED <<conf, clock, cache, seen>>
  /\ UNCHANGED kvars

\* The forward of an event to the backend ends, and the handler replies.
ForwardResponse(i, outcome) ==
  /\ i \in DOMAIN inflight
  /\ inflight[i].pc = "forward"
  /\ LET Replied(t, p) == Completed(t, p.code, p.body, p.err, NoResponse, outcome)
     IN  finished' = Replied(inflight[i], KfCallbackPost(inflight[i].handler, outcome))
  /\ inflight' = Without(inflight, i)
  /\ UNCHANGED <<conf, clock, cache, seen>>
  /\ UNCHANGED kvars

\* A second passes.
Tick ==
  /\ clock < MaxClock
  /\ clock' = clock + 1
  /\ UNCHANGED <<conf, cache, inflight, finished, seen>>
  /\ UNCHANGED kvars

\* The server takes requests for tokens, several at a time, as time passes.
InitTokens ==
  /\ env = Env1 /\ query = NoQuery /\ phase = "idle" /\ reply = NoReply
  /\ calls = << >> /\ earlier = NoFailure
  /\ vin = NoVerify /\ vout = NotVerified
  /\ din = NoDecrypt /\ dout = NotDecrypted
  /\ TokensIdle /\ seen = {}

NextTokens ==
  \/ Len(inflight) < MaxInFlight /\ \E r \in TokenRequests : Arrive(r)
  \/ \E i \in DOMAIN inflight :
       \E res \in GetTokenResponses(inflight[i].secret) : TokenResponse(i, res)
  \/ Tick

SpecTokens == InitTokens /\ [][NextTokens]_vars

\* The server takes one request at a time, to every route and with every
\* header, under every configuration.
InitRoutes ==
  /\ env = Env1 /\ query = NoQuery /\ phase = "idle" /\ reply = NoReply
  /\ calls = << >> /\ earlier = NoFailure
  /\ vin = NoVerify /\ vout = NotVerified
  /\ din = NoDecrypt /\ dout = NotDecrypted
  /\ conf \in Confs /\ clock = 0 /\ cache = EmptyCache
  /\ inflight = << >> /\ finished = NoRequest /\ seen = {}

NextRoutes ==
  \/ inflight = << >> /\ \E r \in ProtectedRequests \cup EventRequests : Arrive(r)
  \/ \E i \in DOMAIN inflight :
       \E res \in GetTokenResponses(inflight[i].secret) : TokenResponse(i, res)
  \/ \E i \in DOMAIN inflight : \E o \in {"ok", "error", "reject"} : ApiResponse(i, o)
  \/ \E i \in DOMAIN inflight : \E o \in {"2xx", "5xx", "reject"} : ForwardResponse(i, o)

SpecRoutes == InitRoutes /\ [][NextRoutes]_vars

\* Two requests to GET /wecom/kf-callback: one that is answered with the
\* message, one with another tenant's challenge.
CoreQueries ==
  {SignedQuery(EncryptChallenge(Key1, Random1, Text, CorpA)),
   SignedQuery(EncryptChallenge(Key1, Random1, Text, CorpB))}

\* The server verifies and decrypts challenges while tokens are fetched and
\* cached, one call of a getter at a time, and keeps what it answered and
\* whether a token was cached when it did.
NextCore ==
  \/ \E q \in CoreQueries : Receive(q)
  \/ Handle /\ seen' = seen \cup {[query |-> query, reply |-> reply',
                                  calls |-> calls', cached |-> cache # EmptyCache]}
  \/ inflight = << >> /\ \E r \in TokenRequests : Arrive(r)
  \/ \E i \in DOMAIN inflight :
       \E res \in {a \in GetTokenResponses(inflight[i].secret) : a.expires_in = 301} :
         TokenResponse(i, res)

SpecCore == InitTokens /\ [][NextCore]_vars

(***************************************************************************)
(* The errors decryptWecomEchoStr throws, by the kind the specification    *)
(* gives them.  The code has one class of error; an error is told by the   *)
(* statement that throws it.                                               *)
(***************************************************************************)
ConfigErrors == {"EncodingAESKey length", "AES key length"}

DecryptErrors ==
  {"wrong final block length", "bad decrypt", "readUInt32BE out of range",
   "Bad msgLen", "CorpID mismatch"}

(***************************************************************************)
(* The properties.                                                         *)
(***************************************************************************)

\* C1: in the GET /wecom/kf-callback handler decryptWecomEchoStr is called on
\* a request's echostr only after verifyWecomSignature has returned true for
\* that same request; where verification returned false or was not reached
\* (a 400 or 403 reply, a forged signature) there is no call of decrypt.
C1_DecryptOnlyAfterVerified ==
  /\ \A i \in 1..Len(calls) :
       calls[i].fn = "decryptWecomEchoStr" =>
         /\ calls[i].data = query.echostr
         /\ \E j \in 1..(i - 1) :
              /\ calls[j].fn = "verifyWecomSignature"
              /\ calls[j].ok /\ calls[j].data = calls[i].data
  /\ (reply.code \in {400, 403} \/ query \in ForgedQueries \/ query \in PartialQueries)
       => \A i \in 1..Len(calls) : calls[i].fn # "decryptWecomEchoStr"

\* A request was verified and then its challenge decrypted.
C1_Witness ==
  /\ phase = "replied" /\ Len(calls) = 2
  /\ calls[1].fn = "verifyWecomSignature" /\ calls[1].ok
  /\ calls[2].fn = "decryptWecomEchoStr"

\* C2 (as claimed): verifyWecomSignature returns true if and only if the
\* signature is the lowercase hexadecimal SHA-1 of the four strings sorted in
\* byte-wise order and concatenated.
C2_TrueIffByteOrderSignature ==
  vout.done =>
    (vout.value <=> vin.signature = SignatureOf(vin.token, vin.timestamp,
                                                vin.nonce, vin.data))

\* C2 (what the code does): verifyWecomSignature returns true if and only if
\* the signature is the lowercase hexadecimal SHA-1 of the four strings sorted
\* by their UTF-16 code units and concatenated.
C2_TrueIffCodeUnitOrderSignature ==
  vout.done =>
    (vout.value <=> vin.signature = SignatureByCodeUnits(vin.token, vin.timestamp,
                                                         vin.nonce, vin.data))

\* The byte-wise signature of strings that the two orders sort differently
\* was given, and the verifier returned false.
C2_Witness ==
  /\ vout.done /\ ~vout.value
  /\ vin.timestamp = HalfwidthStop /\ vin.nonce = GrinningFace
  /\ vin.signature = SignatureOf(vin.token, vin.timestamp, vin.nonce, vin.data)

\* C3: the handler answers 403 with a text/plain body when
\* verifyWecomSignature returned false, 500 with a text/plain body when
\* decryptWecomEchoStr threw, and 200 with exactly the string
\* decryptWecomEchoStr returned as the body when it returned.
C3_ReplyMapping ==
  phase = "replied" =>
    /\ (Len(calls) >= 1 /\ ~calls[1].ok)
         => reply.code = 403 /\ reply.type = "text/plain" /\ reply.body # << >>
    /\ (Len(calls) = 2 /\ ~calls[2].ok)
         => reply.code = 500 /\ reply.type = "text/plain" /\ reply.body # << >>
    /\ (Len(calls) = 2 /\ calls[2].ok)
         => reply.code = 200 /\ reply.type = "text/plain" /\ reply.body = calls[2].msg
    /\ \A c \in Challenges :
         (query.echostr = c.echostr /\ reply.code = 200) => reply.body = c.msg

\* A challenge was decrypted and its message sent back.
C3_Witness ==
  /\ phase = "replied" /\ reply.code = 200 /\ reply.body = Text
  /\ Len(calls) = 2 /\ calls[2].ok

\* C4: two requests that pass verification and whose challenges fail to
\* decrypt get the same status code and body, whatever the reasons of the two
\* failures.
C4_SameReplyForEveryFailure ==
  (phase = "replied" /\ ThrownBy(calls) # "" /\ earlier # NoFailure)
    => /\ reply.code = earlier.code
       /\ reply.body = earlier.body
       /\ reply.type = earlier.type

\* After a challenge that did not end in padding, one with another tenant's
\* identifier.
C4_Witness ==
  /\ phase = "replied" /\ ThrownBy(calls) = "CorpID mismatch"
  /\ earlier.err = "bad decrypt"

\* C5: for a well-formed challenge under the right key, decryptWecomEchoStr
\* throws the tenant mismatch if and only if an expected tenant identifier
\* was supplied, the recovered one is not empty, and the two differ; in every
\* other case it returns the message.
C5_TenantMismatchIff ==
  dout.done =>
    \A c \in Challenges :
      (din.echostrB64 = c.echostr /\ Trim(din.encodingAESKey) = c.key) =>
        IF /\ din.corpId # Undefined /\ din.corpId # << >>
           /\ c.tenant # << >> /\ c.tenant # din.corpId
        THEN ~dout.ok /\ dout.err = "CorpID mismatch" /\ dout.err \in DecryptErrors
        ELSE dout.ok /\ dout.msg = c.msg

\* An expected identifier was supplied and the challenge held no identifier:
\* the message was returned.
C5_Witness ==
  /\ dout.done /\ dout.ok /\ dout.msg = Text /\ din.corpId = CorpB
  /\ din.echostrB64 = EncryptChallenge(Key1, Random1, Text, << >>)

\* C6: decryptWecomEchoStr throws, and returns no message, whenever 20 plus
\* the length field, read as an unsigned 32-bit number, is above the length
\* of the plaintext, and whenever the plaintext is shorter than 20 bytes.
C6_LengthFieldGuard ==
  (dout.done /\ Trim(din.encodingAESKey) = EncodingAESKey1) =>
    /\ \A c \in LongChallenges :
         din.echostrB64 = c.echostr =>
           ~dout.ok /\ dout.msg = << >> /\ dout.err = "Bad msgLen"
    /\ \A c \in ShortChallenges :
         din.echostrB64 = c.echostr =>
           ~dout.ok /\ dout.msg = << >> /\ dout.err \in DecryptErrors

\* A length field of 2^32 - 16 was refused.
C6_Witness ==
  /\ dout.done /\ ~dout.ok /\ din.encodingAESKey = EncodingAESKey1
  /\ din.corpId = Undefined
  /\ din.echostrB64 =
       EncryptBlocks(Key1, Pkcs7Pad(Layout(Random1, <<65535, 65520>>,
                                           SubSeq(Text, 1, 3), CorpA)))

\* C7: decryptWecomEchoStr throws a configuration error, before it decodes
\* the challenge or deciphers anything, whenever the trimmed key material is
\* not 43 characters long (42 and 44 among them) or is 43 characters that do
\* not decode to 32 bytes.
C7_KeyMaterialChecks ==
  (dout.done /\ din.encodingAESKey \in WrongLengthKeys \cup UndecodableKeys) =>
    /\ ~dout.ok /\ dout.err \in ConfigErrors
    /\ \A i \in 1..Len(dout.steps) :
         dout.steps[i] \notin {"Buffer.from(echostr)", "decipher"}
    /\ din.encodingAESKey \in WrongLengthKeys <=> dout.err = "EncodingAESKey length"

\* Key material of 43 characters with one outside the alphabet was refused
\* for a well-formed challenge.
C7_Witness ==
  /\ dout.done /\ dout.err = "AES key length"
  /\ din.encodingAESKey \in UndecodableKeys
  /\ din.echostrB64 = EncryptChallenge(Key1, Random1, Text, CorpA)

\* C8: decryptWecomEchoStr, given the 43-character key material of a key and
\* the tenant identifier of a challenge that was laid out as 16 bytes, the
\* length of the message, the message and the tenant identifier, padded,
\* encrypted under the key with its first 16 bytes as the IV and encoded,
\* returns exactly the message.
C8_RoundTrip ==
  dout.done =>
    \A c \in Challenges :
      (/\ din.echostrB64 = c.echostr
       /\ din.encodingAESKey = c.key
       /\ din.corpId = c.tenant) => dout.ok /\ dout.msg = c.msg

\* The message with characters of two, three and four bytes came back.
C8_Witness ==
  /\ dout.done /\ dout.ok /\ dout.msg = Accented /\ din.corpId = CorpA
  /\ din.echostrB64 = EncryptChallenge(Key1, Random1, Accented, CorpA)

\* C9: a call of verifyWecomSignature after another one with the same token
\* and signature and the same three strings as timestamp, nonce and payload,
\* in the same or in another order, returns what that one returned.
C9_OrderInvariant == [][vout.done => vout'.value = vout.value]_vars

\* The verifier returned true with the payload given as the timestamp.
C9_Witness ==
  /\ vout.done /\ vout.value
  /\ vin.timestamp = ChallengeXYZ /\ vin.data = Nonce1

\* C10: a request in which msg_signature, timestamp, nonce or echostr is
\* missing or empty is answered 400, and neither verifyWecomSignature nor
\* decryptWecomEchoStr is called for it.
C10_MissingParamsRejected ==
  (phase = "replied"
     /\ \E f \in QueryFields : query[f] = Undefined \/ query[f] = << >>)
    => reply.code = 400 /\ calls = << >>

\* A request with an empty echostr was rejected by a server that is fully
\* configured.
C10_Witness ==
  /\ phase = "replied" /\ query.echostr = << >> /\ reply.code = 400
  /\ env.WECOM_KF_TOKEN = Tok /\ env.WECOM_KF_ENCODING_AES_KEY = EncodingAESKey1
  /\ env.WECOM_CORP_ID = CorpA

\* C11: of the calls of a token getter that wait for the platform's answer,
\* at most one at a time waits on behalf of the same cache, that of
\* getWecomAccessToken or that of getKFAccessToken, however the calls
\* interleave.
C11_AtMostOneRefreshInFlight ==
  \A i, j \in DOMAIN inflight :
    (/\ inflight[i].pc = "gettoken" /\ inflight[j].pc = "gettoken"
     /\ (inflight[i].route = "getKFAccessToken")
          = (inflight[j].route = "getKFAccessToken")) => i = j

\* Two calls of getWecomAccessToken with the enterprise secret both wait for
\* the platform's answer.
C11_Witness ==
  /\ Len(inflight) = 2
  /\ \A i \in 1..2 : /\ inflight[i].route = "getWecomAccessToken"
                      /\ inflight[i].pc = "gettoken"
                      /\ inflight[i].secret = EntSecret

\* C12: the handler that calls verifyWecomSignature and decryptWecomEchoStr
\* leaves the cached access tokens and their expiries as they were, whether
\* the calls succeed or fail, and a request gets the reply and the results of
\* the two calls that the same request got at any other time, whatever was
\* cached or in flight then.
C12_VerifyDecryptMutateNoState ==
  [][(phase = "received" /\ phase' = "replied")
       => /\ cache' = cache
          /\ inflight' = inflight
          /\ \A s \in seen :
               s.query = query => s.reply = reply' /\ s.calls = calls']_vars

\* The same challenge was answered with its message once before any token
\* was cached and once after, a request with another tenant's challenge was
\* refused, and getKFAccessToken waits for the platform.
C12_Witness ==
  /\ \E s, t \in seen :
       /\ s.query = t.query /\ ~s.cached /\ t.cached
       /\ s.reply.code = 200 /\ Len(s.calls) = 2
  /\ \E s \in seen : s.reply.code # 200 /\ Len(s.calls) = 2
  /\ ~Falsy(cache.cachedToken)
  /\ Len(inflight) = 1 /\ inflight[1].pc = "gettoken"

\* C13: a call of getWecomAccessToken fetches from the platform exactly when
\* no token is cached or the time is at or past the recorded expiry, and
\* otherwise returns the cached token without a fetch, so never at or after
\* the recorded expiry; and after a fetch that succeeded the recorded expiry
\* is the time at which that call started plus (expires_in - 60) seconds.
C13_RefreshWhenAbsentOrExpired ==
  [][LET Getters == {"getWecomAccessToken", "getKfAccessToken"}
         Absent == Falsy(cache.cachedToken)
         Expired == clock * 1000 >= cache.tokenExpiryMs
     IN  /\ (Len(inflight') > Len(inflight)
              /\ inflight'[Len(inflight')].route \in Getters)
             => /\ Absent \/ Expired
                /\ inflight'[Len(inflight')].pc = "gettoken"
                /\ inflight'[Len(inflight')].now = clock * 1000
                /\ cache' = cache
         /\ (Len(inflight') = Len(inflight) /\ finished' # finished
              /\ finished'.route \in Getters)
             => /\ ~Absent /\ ~Expired
                /\ finished'.hit /\ finished'.err = ""
                /\ finished'.token = cache.cachedToken
                /\ cache' = cache
         /\ (Len(inflight') < Len(inflight) /\ finished'.route \in Getters
              /\ finished'.err = "")
             => \E i \in DOMAIN inflight :
                  /\ inflight' = Without(inflight, i)
                  /\ cache'.cachedToken = finished'.res.access_token
                  /\ cache'.tokenExpiryMs =
                       inflight[i].now + (finished'.res.expires_in - 60) * 1000]_vars

\* A call that started at second 1 fetched a token that expires in 61
\* seconds, a second call in the same second was given the cached token, and
\* a third call at second 2, the recorded expiry, waits for the platform.
C13_Witness ==
  /\ clock = 2 /\ cache.tokenExpiryMs = 2000 /\ ~Falsy(cache.cachedToken)
  /\ finished.route = "getWecomAccessToken" /\ finished.hit
  /\ finished.now = 1000 /\ finished.token = cache.cachedToken
  /\ Len(inflight) = 1 /\ inflight[1].route = "getWecomAccessToken"
  /\ inflight[1].pc = "gettoken" /\ inflight[1].now = 2000

\* C14: the token that a call of getWecomAccessToken or getKfAccessToken
\* returns is one the platform issued for the secret of that call: the
\* enterprise secret for getWecomAccessToken, the KF secret for
\* getKfAccessToken.
C14_TokenOfOwnCredentials ==
  (finished.route \in {"getWecomAccessToken", "getKfAccessToken"}
     /\ finished.err = "")
    => finished.token = AccessToken(finished.secret)

\* getKfAccessToken, called with the KF secret, returned from the cache the
\* token that was issued for the enterprise secret.
C14_Witness ==
  /\ finished.route = "getKfAccessToken" /\ finished.err = "" /\ finished.hit
  /\ finished.secret = KfSecret
  /\ finished.token = AccessToken(EntSecret)

\* C15: a POST /wecom/kf-callback request whose event was forwarded to the
\* backend is answered with status 200 and the body "success", whether the
\* backend answered with a success status or an error status or the forward
\* failed.
C15_EventAlwaysAnsweredSuccess ==
  (finished.route = "POST /wecom/kf-callback" /\ finished.outcome # "")
    => finished.code = 200 /\ finished.body = SuccessBody

\* The forward of an event failed in the handler of src/server.js, and the
\* platform was answered with status 500.
C15_Witness ==
  /\ finished.route = "POST /wecom/kf-callback"
  /\ finished.handler = "src/server.js:167"
  /\ finished.outcome = "reject" /\ finished.code = 500
  /\ ~Falsy(conf.SUPABASE_FUNCTIONS_URL)

\* C16: a request to a protected route waits for a token or for a call of
\* the platform only if PROXY_SHARED_SECRET is set and not empty and its
\* Authorization header is exactly "Bearer " followed by that secret; every
\* other request to a protected route, and so every request when the secret
\* is unset or empty, ended with status 401 without a token, a fetch or a call.
C16_ProtectedRoutesRequireSecret ==
  LET Authorized(auth) ==
        /\ ~Falsy(conf.PROXY_SHARED_SECRET)
        /\ auth = BearerPrefix \o conf.PROXY_SHARED_SECRET
  IN  /\ \A i \in DOMAIN inflight :
           inflight[i].route \in ProtectedRoutes => Authorized(inflight[i].auth)
      /\ (finished.route \in ProtectedRoutes /\ ~Authorized(finished.auth))
           => /\ finished.code = 401
              /\ finished.token = Undefined /\ ~finished.hit
              /\ finished.res = NoResponse /\ finished.outcome = ""

\* PROXY_SHARED_SECRET is not set, and a request to GET /wecom/kf-token with
\* the header "Bearer undefined" was answered with status 401.
C16_Witness ==
  /\ conf.PROXY_SHARED_SECRET = Undefined
  /\ finished.route = "GET /wecom/kf-token"
  /\ finished.auth = BearerPrefix \o UndefinedString
  /\ finished.code = 401

\* C17: when the fetch of gettoken that a call of getWecomAccessToken,
\* getKfAccessToken or getKFAccessToken waits for rejects, or is answered
\* with an error, the call ends with an error and both cached tokens and
\* their expiries are what they were before the answer.
C17_FailedRefreshLeavesCache ==
  [][(/\ Len(inflight') < Len(inflight)
      /\ \/ finished'.res.kind = "reject"
         \/ ~finished'.res.ok
         \/ finished'.res.errcode # 0)
       => /\ cache' = cache
          /\ finished'.err # "" /\ finished'.token = Undefined
          /\ \E i \in DOMAIN inflight :
               /\ inflight[i].pc = "gettoken"
               /\ inflight' = Without(inflight, i)]_vars

\* A token fetched at second 0 expired at second 1; the call that started
\* then was answered with an error and failed, and the cache still holds the
\* expired token and its expiry.
C17_Witness ==
  /\ finished.route = "getWecomAccessToken" /\ finished.err = "gettoken failed"
  /\ finished.now = 1000 /\ finished.res.errcode = 40001
  /\ cache.cachedToken = AccessToken(EntSecret) /\ cache.tokenExpiryMs = 1000
====
